---- MODULE Spec2Model ----
(***************************************************************************)
(* modtransplant: merging the require, replace and exclude statements of   *)
(* a source go.mod into a destination go.mod (src/main.go).                *)
(*                                                                         *)
(* A module.Version is a record [Path, Version] of strings.  The zero      *)
(* value of a statement (what modfile's Drop* operations leave in the      *)
(* list until File.Cleanup) has Path = "" and Version = "".                *)
(***************************************************************************)
EXTENDS Integers, Sequences, FiniteSets, TLC

\* dest, src          the two parsed files (run's dest and src)
\* forceOverwrite     the -force-overwrite flag
\* pc                 where run is: "requires", "replacements", "excludes",
\*                    "cleanup", "done" (returned nil) or "failed" (returned err)
\* err                the error of the last pass that returned
\* stdout             the number of files printed on the standard output
\* ran                history: the passes that returned, each with its error
\* destIn             history: the destination as it was parsed
\* round, first       for the runs that repeat the passes: which repetition
\*                    this is, and the destination as the first one left it
VARIABLES dest, src, forceOverwrite, pc, err, ran, stdout, destIn, round, first

vars == <<dest, src, forceOverwrite, pc, err, ran, stdout, destIn, round, first>>

(***************************************************************************)
(* Bounds of the model.                                                    *)
(***************************************************************************)
\* total number of require statements in the two files (requirement runs)
MaxRequire == 3
\* total number of replace statements in the two files (replacement runs)
MaxReplace == 3
\* total number of statements of all kinds in the two files (whole runs)
MaxStatements == 2

(***************************************************************************)
(* Input alphabet.  "m" is the source file's own module path.              *)
(***************************************************************************)
SourceModule == "m"

Paths == {"m", "p"}

\* Two releases and two pseudo-versions, in canonical go.mod form.
Versions == {"v1.1.0", "v1.2.0",
             "v0.0.0-20190101000000-abcdef000000",
             "v0.0.0-20190523213315-cbe66965904d"}

NewPaths == {"x", "y"}

Mod(path, version) == [Path |-> path, Version |-> version]

ZeroMod == Mod("", "")

ZeroRequire == [Mod |-> ZeroMod, Indirect |-> FALSE]

ZeroReplace == [Old |-> ZeroMod, New |-> ZeroMod]

RequireEntries == {[Mod |-> Mod(p, v), Indirect |-> i] :
                      p \in Paths, v \in Versions, i \in BOOLEAN}

\* the old version of a replace may be empty (every version of the path), the
\* new version is empty for a replacement by a directory
ReplaceEntries == {[Old |-> Mod(p, v), New |-> Mod(n, "")] :
                      p \in Paths, v \in {"", "v1.1.0", "v1.2.0"}, n \in NewPaths}

ExcludeEntries == {[Mod |-> Mod(p, v)] : p \in Paths, v \in {"v1.1.0", "v1.2.0"}}

SeqsUpTo(S, n) == UNION {[1..k -> S] : k \in 0..n}

NoError == "nil"

ParseError == "Invalid Semantic Version"

IrreconcilableError == "cannot reconcile difference between versions"

ConflictError == "(replace) source and destination old path/version match, but new path/version do not"

(***************************************************************************)
(* module.Version.String: Path, or Path@Version when there is a version.   *)
(***************************************************************************)
ModString(mod) ==
    IF mod.Version # "" THEN <<mod.Path, "@", mod.Version>> ELSE <<mod.Path>>

(***************************************************************************)
(* semver.NewVersion on the version strings of the alphabet: the numbers,  *)
(* the pre-release tag and the tag's place in the order of tags.  Any      *)
(* other string (the empty version of a dropped statement) does not parse. *)
(***************************************************************************)
NewVersion(v) ==
    CASE v = "v1.1.0" ->
           [ok |-> TRUE, major |-> 1, minor |-> 1, patch |-> 0, pre |-> "", preOrd |-> 0]
      [] v = "v1.2.0" ->
           [ok |-> TRUE, major |-> 1, minor |-> 2, patch |-> 0, pre |-> "", preOrd |-> 0]
      [] v = "v0.0.0-20190101000000-abcdef000000" ->
           [ok |-> TRUE, major |-> 0, minor |-> 0, patch |-> 0,
            pre |-> "20190101000000-abcdef000000", preOrd |-> 1]
      [] v = "v0.0.0-20190523213315-cbe66965904d" ->
           [ok |-> TRUE, major |-> 0, minor |-> 0, patch |-> 0,
            pre |-> "20190523213315-cbe66965904d", preOrd |-> 2]
      [] OTHER ->
           [ok |-> FALSE, major |-> 0, minor |-> 0, patch |-> 0, pre |-> "", preOrd |-> 0]

\* semver.Version.Prerelease
Prerelease(a) == a.pre

\* semver.Version.LessThan: numbers first, then a tagged version is lower than
\* the untagged one, then the order of the tags
LessThan(a, b) ==
    IF a.major # b.major THEN a.major < b.major
    ELSE IF a.minor # b.minor THEN a.minor < b.minor
    ELSE IF a.patch # b.patch THEN a.patch < b.patch
    ELSE IF Prerelease(a) = "" /\ Prerelease(b) = "" THEN FALSE
    ELSE IF Prerelease(a) = "" THEN FALSE
    ELSE IF Prerelease(b) = "" THEN TRUE
    ELSE a.preOrd < b.preOrd

canCompareEitherTagged(a, b) ==
    \/ Prerelease(a) = "" /\ Prerelease(b) = ""
    \/ Prerelease(a) # "" \/ Prerelease(b) # ""

canCompare(a, b) ==
    \/ Prerelease(a) = "" /\ Prerelease(b) = ""
    \/ Prerelease(a) # "" /\ Prerelease(b) # ""

(***************************************************************************)
(* mergeRequires                                                           *)
(***************************************************************************)
\* modfile.File.DropRequire: every require of the path becomes the zero Require
\* (it returns no error)
DropRequire(reqs, path) ==
    [i \in 1..Len(reqs) |-> IF reqs[i].Mod.Path = path THEN ZeroRequire ELSE reqs[i]]

\* modfile.File.AddNewRequire: a new require at the end, whatever is there
AddNewRequire(reqs, path, vers, indirect) ==
    Append(reqs, [Mod |-> Mod(path, vers), Indirect |-> indirect])

\* lines 103-124: the version of a destination require of the same path
ReconcileVersion(destR, srcR, force) ==
    IF srcR.Mod.Version # destR.Mod.Version
    THEN LET destVersion == NewVersion(destR.Mod.Version)
             srcVersion == NewVersion(srcR.Mod.Version)
         IN  IF ~destVersion.ok THEN [destR |-> destR, err |-> ParseError]
             ELSE IF ~srcVersion.ok THEN [destR |-> destR, err |-> ParseError]
             ELSE IF force
                  THEN [destR |-> [destR EXCEPT !.Mod.Version = srcR.Mod.Version],
                        err |-> NoError]
             ELSE IF ~canCompare(destVersion, srcVersion)
                  THEN [destR |-> destR, err |-> IrreconcilableError]
             ELSE IF LessThan(srcVersion, destVersion)
                  THEN [destR |-> [destR EXCEPT !.Mod.Version = srcR.Mod.Version],
                        err |-> NoError]
             ELSE [destR |-> destR, err |-> NoError]
    ELSE [destR |-> destR, err |-> NoError]

\* lines 125-128
MakeDirect(destR, srcR) ==
    IF destR.Indirect # ~srcR.Indirect
    THEN [destR EXCEPT !.Indirect = srcR.Indirect]
    ELSE destR

\* lines 96-130: the scan of the destination's requires for one source require
RECURSIVE ScanRequire(_, _, _, _)
ScanRequire(reqs, srcR, force, i) ==
    IF i > Len(reqs) THEN [Require |-> reqs, found |-> FALSE, err |-> NoError]
    ELSE LET destR == reqs[i] IN
         IF ModString(srcR.Mod) = ModString(destR.Mod)
         THEN [Require |-> reqs, found |-> TRUE, err |-> NoError]
         ELSE IF srcR.Mod.Path = destR.Mod.Path
         THEN LET r == ReconcileVersion(destR, srcR, force) IN
              IF r.err # NoError
              THEN [Require |-> reqs, found |-> FALSE, err |-> r.err]
              ELSE ScanRequire([reqs EXCEPT ![i] = MakeDirect(r.destR, srcR)],
                               srcR, force, i + 1)
         ELSE ScanRequire(reqs, srcR, force, i + 1)

\* lines 94-136: one source require after the other
RECURSIVE MergeRequireLoop(_, _, _, _)
MergeRequireLoop(reqs, srcReqs, force, j) ==
    IF j > Len(srcReqs) THEN [Require |-> reqs, err |-> NoError]
    ELSE LET srcR == srcReqs[j]
             s == ScanRequire(reqs, srcR, force, 1)
         IN  IF s.err # NoError THEN [Require |-> s.Require, err |-> s.err]
             ELSE IF ~s.found
                  THEN MergeRequireLoop(
                           AddNewRequire(s.Require, srcR.Mod.Path, srcR.Mod.Version,
                                         srcR.Indirect),
                           srcReqs, force, j + 1)
             ELSE MergeRequireLoop(s.Require, srcReqs, force, j + 1)

mergeRequires(d, s, force) ==
    MergeRequireLoop(DropRequire(d.Require, s.Module), s.Require, force, 1)

(***************************************************************************)
(* mergeReplacements                                                       *)
(***************************************************************************)
\* lines 151-156: the old sides of the destination's replaces of the source module
RECURSIVE dropVersions(_, _, _)
dropVersions(reps, path, i) ==
    IF i > Len(reps) THEN <<>>
    ELSE IF reps[i].Old.Path = path
         THEN <<reps[i].Old>> \o dropVersions(reps, path, i + 1)
         ELSE dropVersions(reps, path, i + 1)

\* modfile.File.DropReplace: every replace of that old path and version becomes
\* the zero Replace
DropReplace(reps, oldPath, oldVers) ==
    [i \in 1..Len(reps) |->
        IF reps[i].Old.Path = oldPath /\ reps[i].Old.Version = oldVers
        THEN ZeroReplace ELSE reps[i]]

\* lines 157-160
RECURSIVE DropReplaces(_, _, _)
DropReplaces(reps, drops, k) ==
    IF k > Len(drops) THEN reps
    ELSE DropReplaces(DropReplace(reps, drops[k].Path, drops[k].Version), drops, k + 1)

\* modfile.File.AddReplace: the first replace of the old path (of the old version
\* too, unless the old version is empty) gets the new side, the others of them
\* become the zero Replace, and only when there is none is a replace appended
RECURSIVE AddReplaceLoop(_, _, _, _, _)
AddReplaceLoop(reps, old, new, need, i) ==
    IF i > Len(reps)
    THEN IF need THEN Append(reps, [Old |-> old, New |-> new]) ELSE reps
    ELSE IF reps[i].Old.Path = old.Path
            /\ (old.Version = "" \/ reps[i].Old.Version = old.Version)
         THEN IF need
              THEN AddReplaceLoop([reps EXCEPT ![i].New = new], old, new, FALSE, i + 1)
              ELSE AddReplaceLoop([reps EXCEPT ![i] = ZeroReplace], old, new, need, i + 1)
         ELSE AddReplaceLoop(reps, old, new, need, i + 1)

AddReplace(reps, oldPath, oldVers, newPath, newVers) ==
    AddReplaceLoop(reps, Mod(oldPath, oldVers), Mod(newPath, newVers), TRUE, 1)

\* lines 164-175: the scan of the destination's replaces for one source replace
RECURSIVE ScanReplace(_, _, _)
ScanReplace(reps, srcR, i) ==
    IF i > Len(reps) THEN [found |-> FALSE, err |-> NoError]
    ELSE LET destR == reps[i] IN
         IF ModString(srcR.Old) = ModString(destR.Old)
         THEN [found |-> TRUE, err |-> NoError]
         ELSE IF /\ srcR.Old.Path = destR.Old.Path
                 /\ srcR.Old.Version = destR.Old.Version
                 /\ (srcR.New.Path # destR.New.Path
                       \/ srcR.New.Version # destR.New.Version)
         THEN [found |-> FALSE, err |-> ConflictError]
         ELSE ScanReplace(reps, srcR, i + 1)

MergeReplaceStepAppend(reps, srcR) ==
    [Replace |-> Append(reps, srcR), err |-> NoError]

\* lines 163-180: the body of the loop over the source's replaces
MergeReplaceStep(reps, srcR) ==
    LET s == ScanReplace(reps, srcR, 1) IN
    IF s.err # NoError THEN [Replace |-> reps, err |-> s.err]
    ELSE IF ~s.found
         THEN [Replace |-> AddReplace(reps, srcR.Old.Path, srcR.Old.Version,
                                      srcR.New.Path, srcR.New.Version),
               err |-> NoError]
    ELSE [Replace |-> reps, err |-> NoError]

\* lines 162-183
RECURSIVE MergeReplaceLoop(_, _, _)
MergeReplaceLoop(reps, srcReps, j) ==
    IF j > Len(srcReps) THEN [Replace |-> reps, err |-> NoError]
    ELSE LET r == MergeReplaceStep(reps, srcReps[j]) IN
         IF r.err # NoError THEN r
         ELSE MergeReplaceLoop(r.Replace, srcReps, j + 1)

mergeReplacements(d, s) ==
    MergeReplaceLoop(
        DropReplaces(d.Replace, dropVersions(d.Replace, s.Module, 1), 1),
        s.Replace, 1)

(***************************************************************************)
(* mergeExcludes                                                           *)
(***************************************************************************)
\* lines 191-197
ExcludeFound(excs, srcE) ==
    \E i \in 1..Len(excs) : ModString(srcE.Mod) = ModString(excs[i].Mod)

\* modfile.File.AddExclude: appended unless that path and version is excluded
AddExclude(excs, path, vers) ==
    IF \E i \in 1..Len(excs) : excs[i].Mod.Path = path /\ excs[i].Mod.Version = vers
    THEN excs
    ELSE Append(excs, [Mod |-> Mod(path, vers)])

\* lines 189-205
RECURSIVE MergeExcludeLoop(_, _, _)
MergeExcludeLoop(excs, srcExcs, j) ==
    IF j > Len(srcExcs) THEN [Exclude |-> excs, err |-> NoError]
    ELSE IF ~ExcludeFound(excs, srcExcs[j])
         THEN MergeExcludeLoop(
                  AddExclude(excs, srcExcs[j].Mod.Path, srcExcs[j].Mod.Version),
                  srcExcs, j + 1)
    ELSE MergeExcludeLoop(excs, srcExcs, j + 1)

mergeExcludes(d, s) == MergeExcludeLoop(d.Exclude, s.Exclude, 1)

(***************************************************************************)
(* run                                                                     *)
(***************************************************************************)
\* modfile.File.Cleanup: the zero statements leave the lists
Cleanup(d) ==
    [Require |-> SelectSeq(d.Require, LAMBDA r : r.Mod.Path # ""),
     Replace |-> SelectSeq(d.Replace, LAMBDA r : r.Old.Path # ""),
     Exclude |-> SelectSeq(d.Exclude, LAMBDA x : x.Mod.Path # "")]

Passes == <<"requires", "replacements", "excludes">>

AfterIgnoringError(e, next) == next

\* "if err := ...; err != nil { return err }": where run goes after a pass
After(e, next) == IF e # NoError THEN "failed" ELSE next

File(req, rep, exc) == [Require |-> req, Replace |-> rep, Exclude |-> exc]

Source(req, rep, exc) ==
    [Module |-> SourceModule, Require |-> req, Replace |-> rep, Exclude |-> exc]

\* what run holds once both files are parsed (line 59)
Start(d, s, force) ==
    /\ dest = d
    /\ src = s
    /\ forceOverwrite = force
    /\ pc = "requires"
    /\ err = NoError
    /\ ran = <<>>
    /\ stdout = 0
    /\ destIn = d
    /\ round = 1
    /\ first = d

\* two files with at most MaxStatements statements between them
Init ==
    \E dq \in SeqsUpTo(RequireEntries, MaxStatements) :
    \E sq \in SeqsUpTo(RequireEntries, MaxStatements - Len(dq)) :
    \E dp \in SeqsUpTo(ReplaceEntries, MaxStatements - Len(dq) - Len(sq)) :
    \E sp \in SeqsUpTo(ReplaceEntries, MaxStatements - Len(dq) - Len(sq) - Len(dp)) :
    \E dx \in SeqsUpTo(ExcludeEntries,
                       MaxStatements - Len(dq) - Len(sq) - Len(dp) - Len(sp)) :
    \E sx \in SeqsUpTo(ExcludeEntries,
                       MaxStatements - Len(dq) - Len(sq) - Len(dp) - Len(sp) - Len(dx)) :
    \E force \in BOOLEAN :
        Start(File(dq, dp, dx), Source(sq, sp, sx), force)

\* two files of require statements only
InitRequires ==
    \E dq \in SeqsUpTo(RequireEntries, MaxRequire) :
    \E sq \in SeqsUpTo(RequireEntries, MaxRequire - Len(dq)) :
    \E force \in BOOLEAN :
        Start(File(dq, <<>>, <<>>), Source(sq, <<>>, <<>>), force)

\* two files of replace statements only
InitReplacements ==
    \E dp \in SeqsUpTo(ReplaceEntries, MaxReplace) :
    \E sp \in SeqsUpTo(ReplaceEntries, MaxReplace - Len(dp)) :
    \E force \in BOOLEAN :
        Start(File(<<>>, dp, <<>>), Source(<<>>, sp, <<>>), force)

\* line 60
MergeRequires ==
    /\ pc = "requires"
    /\ LET r == mergeRequires(dest, src, forceOverwrite) IN
       /\ dest' = [dest EXCEPT !.Require = r.Require]
       /\ err' = r.err
       /\ ran' = Append(ran, [pass |-> "requires", err |-> r.err])
       /\ pc' = After(r.err, "replacements")
    /\ UNCHANGED <<src, forceOverwrite, stdout, destIn, round, first>>

\* line 63
MergeReplacements ==
    /\ pc = "replacements"
    /\ LET r == mergeReplacements(dest, src) IN
       /\ dest' = [dest EXCEPT !.Replace = r.Replace]
       /\ err' = r.err
       /\ ran' = Append(ran, [pass |-> "replacements", err |-> r.err])
       /\ pc' = After(r.err, "excludes")
    /\ UNCHANGED <<src, forceOverwrite, stdout, destIn, round, first>>

\* line 66
MergeExcludes ==
    /\ pc = "excludes"
    /\ LET r == mergeExcludes(dest, src) IN
       /\ dest' = [dest EXCEPT !.Exclude = r.Exclude]
       /\ err' = r.err
       /\ ran' = Append(ran, [pass |-> "excludes", err |-> r.err])
       /\ pc' = After(r.err, "cleanup")
    /\ UNCHANGED <<src, forceOverwrite, stdout, destIn, round, first>>

\* lines 70-77: Cleanup, Format and the one Println of the formatted file
\* (modfile.File.Format returns no error)
Write ==
    /\ pc = "cleanup"
    /\ dest' = Cleanup(dest)
    /\ stdout' = stdout + 1
    /\ pc' = "done"
    /\ UNCHANGED <<src, forceOverwrite, err, ran, destIn, round, first>>

\* the three passes once more, on the destination as the first three left it
Again ==
    /\ pc = "cleanup"
    /\ round = 1
    /\ first' = dest
    /\ round' = 2
    /\ pc' = "requires"
    /\ UNCHANGED <<dest, src, forceOverwrite, err, ran, stdout, destIn>>

Next == MergeRequires \/ MergeReplacements \/ MergeExcludes \/ Write

NextRequires == MergeRequires

NextReplacements == MergeRequires \/ MergeReplacements

NextTwice == MergeRequires \/ MergeReplacements \/ MergeExcludes \/ Again

Spec == Init /\ [][Next]_vars

SpecRequires == InitRequires /\ [][NextRequires]_vars

SpecReplacements == InitReplacements /\ [][NextReplacements]_vars

SpecTwice == Init /\ [][NextTwice]_vars

(***************************************************************************)
(* Properties.  "The result" of a pass is the destination's list as        *)
(* File.Cleanup leaves it: without the zero statements of the drops.       *)
(***************************************************************************)
Result == Cleanup(dest)

RequiresReturned == ran # <<>> /\ round = 1

RequiresSucceeded == RequiresReturned /\ ran[1].err = NoError

ReplacementsReturned == Len(ran) >= 2 /\ round = 1

ReplacementsSucceeded == ReplacementsReturned /\ ran[2].err = NoError

PathsDistinct(reqs) ==
    \A i, j \in 1..Len(reqs) : reqs[i].Mod.Path = reqs[j].Mod.Path => i = j

OldDistinct(reps) ==
    \A i, j \in 1..Len(reps) : reps[i].Old = reps[j].Old => i = j

PathCount(reqs, path) == Cardinality({i \in 1..Len(reqs) : reqs[i].Mod.Path = path})

Tagged(v) == Prerelease(NewVersion(v)) # ""

\* a destination require i and a source require j of one path, other than the
\* source module's, that no other require of either file has
SamePathPair(i, j) ==
    /\ destIn.Require[i].Mod.Path = src.Require[j].Mod.Path
    /\ destIn.Require[i].Mod.Path # src.Module
    /\ PathCount(destIn.Require, destIn.Require[i].Mod.Path) = 1
    /\ PathCount(src.Require, src.Require[j].Mod.Path) = 1

\* C1: when both files' require paths are pairwise distinct and mergeRequires
\* returns without error, no two requires of the result share a path.
C1_NoDuplicatePaths ==
    (/\ RequiresSucceeded
     /\ PathsDistinct(destIn.Require)
     /\ PathsDistinct(src.Require)) => PathsDistinct(Result.Require)

\* C2: when a destination replace (not of the source module, which is dropped)
\* and a source replace have the same old path and version and different new
\* sides, mergeReplacements returns the conflict error.
C2_ConflictRejected ==
    (/\ ReplacementsReturned
     /\ \E i \in 1..Len(destIn.Replace), j \in 1..Len(src.Replace) :
           /\ destIn.Replace[i].Old = src.Replace[j].Old
           /\ destIn.Replace[i].Old.Path # src.Module
           /\ destIn.Replace[i].New # src.Replace[j].New) => ran[2].err = ConflictError

\* C3: when mergeRequires returns without error, a destination require that was
\* indirect and whose path the source requires directly is direct.
C3_DirectnessPromotion ==
    RequiresSucceeded =>
        \A i \in 1..Len(destIn.Require), j \in 1..Len(src.Require) :
            (/\ SamePathPair(i, j)
             /\ destIn.Require[i].Indirect
             /\ ~src.Require[j].Indirect) => ~dest.Require[i].Indirect

\* C4: without forceOverwrite, when the destination requires a path at d and the
\* source at a different, comparable s, every require of that path in the result
\* is at the lower of d and s.
C4_VersionMinimum ==
    (RequiresSucceeded /\ ~forceOverwrite) =>
        \A i \in 1..Len(destIn.Require), j \in 1..Len(src.Require) :
            LET d == destIn.Require[i].Mod.Version
                s == src.Require[j].Mod.Version
                lower == IF LessThan(NewVersion(s), NewVersion(d)) THEN s ELSE d
            IN  (/\ SamePathPair(i, j)
                 /\ d # s
                 /\ canCompare(NewVersion(d), NewVersion(s))) =>
                    \A k \in 1..Len(Result.Require) :
                        Result.Require[k].Mod.Path = src.Require[j].Mod.Path
                            => Result.Require[k].Mod.Version = lower

\* what C5 says of destination require i and source require j
C5_Outcome(i, j) ==
    IF ~forceOverwrite
    THEN ran[1].err = IrreconcilableError
    ELSE /\ ran[1].err = NoError
         /\ \A k \in 1..Len(Result.Require) :
                Result.Require[k].Mod.Path = src.Require[j].Mod.Path
                    => Result.Require[k].Mod.Version = src.Require[j].Mod.Version

C5_Case(i, j) ==
    /\ destIn.Require[i].Mod.Path = src.Require[j].Mod.Path
    /\ destIn.Require[i].Mod.Version # src.Require[j].Mod.Version
    /\ Tagged(destIn.Require[i].Mod.Version) # Tagged(src.Require[j].Mod.Version)

\* C5 as stated: for a destination require and a source require of one path and
\* of different versions of which exactly one is tagged, mergeRequires returns
\* the irreconcilable-version error without forceOverwrite, and with it returns
\* without error and leaves the path at the source's version.
C5_Original ==
    RequiresReturned =>
        \A i \in 1..Len(destIn.Require), j \in 1..Len(src.Require) :
            C5_Case(i, j) => C5_Outcome(i, j)

\* C5 as amended: the same, for a path that is not the source's own module path
\* and that no other require of the destination or of the source has.
C5_ForcedOrIrreconcilable ==
    RequiresReturned =>
        \A i \in 1..Len(destIn.Require), j \in 1..Len(src.Require) :
            (C5_Case(i, j) /\ SamePathPair(i, j)) => C5_Outcome(i, j)

C5_Witness ==
    /\ RequiresReturned
    /\ forceOverwrite
    /\ \E i \in 1..Len(destIn.Require), j \in 1..Len(src.Require) :
          /\ C5_Case(i, j)
          /\ SamePathPair(i, j)
          /\ dest.Require[i].Mod.Version = src.Require[j].Mod.Version

\* C6: when mergeRequires returns without error, no require of the result is of
\* the source's own module path.
C6_NoSelfRequire ==
    RequiresSucceeded =>
        \A k \in 1..Len(Result.Require) : Result.Require[k].Mod.Path # src.Module

\* C7: when mergeReplacements returns without error, no replace of the result
\* has the source's own module path as its old path.
C7_NoSelfReplace ==
    ReplacementsSucceeded =>
        \A k \in 1..Len(Result.Replace) : Result.Replace[k].Old.Path # src.Module

\* C8: when the old sides of the destination's replaces are pairwise distinct
\* and mergeReplacements returns without error, the old sides of the result's
\* replaces are pairwise distinct, whatever the source's replaces.
C8_UniqueOldCoordinates ==
    (ReplacementsSucceeded /\ OldDistinct(destIn.Replace))
        => OldDistinct(Result.Replace)

C8_Witness ==
    /\ ReplacementsSucceeded
    /\ OldDistinct(destIn.Replace)
    /\ ~OldDistinct(src.Replace)
    /\ Len(Result.Replace) > Len(Cleanup(destIn).Replace)

\* the source names its own module path in none of its statements
NoSelfReference ==
    /\ \A j \in 1..Len(src.Require) : src.Require[j].Mod.Path # src.Module
    /\ \A j \in 1..Len(src.Replace) : src.Replace[j].Old.Path # src.Module

\* C9: when the three passes succeeded, a second run of them on the merged
\* destination succeeds too and leaves the three lists as the first run did
\* (for a source that does not name its own module path).
C9_Idempotent ==
    (round = 2 /\ NoSelfReference) =>
        /\ pc # "failed"
        /\ pc = "cleanup" => Result = Cleanup(first)

\* C10: the passes run in the order requires, replacements, excludes; a pass
\* that returns an error is the last to run and nothing is written; the file is
\* written at most once, and only after the three passes returned no error.
C10_AtomicAbort ==
    /\ Len(ran) <= Len(Passes)
    /\ \A i \in 1..Len(ran) : ran[i].pass = Passes[i]
    /\ \A i \in 1..Len(ran) : ran[i].err # NoError => i = Len(ran) /\ stdout = 0
    /\ stdout <= 1
    /\ stdout = 1 => Len(ran) = Len(Passes) /\ \A i \in 1..Len(ran) : ran[i].err = NoError
    /\ pc = "done" => stdout = 1

C10_Witness ==
    /\ pc = "failed"
    /\ ran = <<[pass |-> "requires", err |-> IrreconcilableError]>>
    /\ stdout = 0

====
